---- MODULE Spec2Model ----
(***************************************************************************)
(* Model of temp_repro/stall_test.cpp: the control thread (main) that      *)
(* drives a continuous acquisition and waits for end-of-frame events, and  *)
(* the driver thread that runs StallTestEofHandler once per frame.         *)
(*                                                                         *)
(* The main thread's position is the source line it is about to execute    *)
(* ("L34" is line 34 of stall_test.cpp).  WaitForEofEvent, the             *)
(* CameraContext type and the open/close helpers are declared in Common.h, *)
(* which is not part of the sources at hand: the wait is modelled from     *)
(* section 4.1 of the specification (wait_or_timeout on a flag, a mutex    *)
(* and a condition variable), the helpers as opaque calls that succeed or  *)
(* fail.                                                                   *)
(***************************************************************************)
EXTENDS Integers, Sequences, FiniteSets, TLC

(* The loop's target frame count, 200 at stall_test.cpp:100 and :124,      *)
(* scaled down so that every interleaving of a whole run is explored.      *)
Target == 3

(* The number of end-of-frame callbacks the driver thread issues at most   *)
(* in one run (the device may stop earlier, at any frame).                 *)
MaxCallbacks == 4

VARIABLES
    pc,             \* main: the line about to be executed
    failStage,      \* main: the setup step that failed, "none" if none did
    sessionOpen,    \* device session: opened and not yet closed
    closeCalls,     \* device session: calls of CloseAllCamerasAndUninit
    cbRegistered,   \* device session: the EOF callback is registered
    sizeKnown,      \* main: exposureBytes has been set by pl_exp_setup_cont
    bufState,       \* circBufferInMemory: "none", "allocated" or "freed"
    deleteCalls,    \* circBufferInMemory: executions of delete []
    acqActive,      \* device: continuous acquisition is running
    abortCalls,     \* device: calls of pl_exp_abort
    framesAcquired, \* main: the local framesAcquired
    waitCalls,      \* main: calls of WaitForEofEvent
    waitRet,        \* main: what the last WaitForEofEvent returned
    elapsed,        \* wait: the deadline of the wait in progress has passed
    notified,       \* wait: a notify_all reached the blocked waiter
    printed,        \* main: the FrameNr values printed at line 114, in order
    timeoutFrame,   \* main: the frame named by the TIMEOUT message (line 105)
    report,         \* main: the final message of lines 124-128
    errMsg,         \* the error message of a failed setup step, "none" if none
    eofCounter,     \* ctx->eofCounter
    eofFrameInfo,   \* ctx->eofFrameInfo.FrameNr (0: never written)
    eofFrame,       \* ctx->eofFrame: the frame the last successful fetch gave
    flag,           \* ctx->eofEvent.flag
    mutex,          \* ctx->eofEvent.mutex: "free", "main" or "cb"
    cbpc,           \* driver thread: "idle" or the handler line about to run
    cbFrameInfo,    \* handler argument pFrameInfo: 0 is null, else its FrameNr
    cbContext,      \* handler argument pContext: FALSE is null
    invocations,    \* driver thread: handler invocations so far
    getLatestCalls  \* device: calls of pl_exp_get_latest_frame

mainVars == <<pc, failStage, sizeKnown, framesAcquired, waitCalls, waitRet,
              printed, timeoutFrame, report, errMsg>>
devVars  == <<sessionOpen, closeCalls, cbRegistered, bufState, deleteCalls,
              acqActive, abortCalls>>
waitVars == <<elapsed, notified>>
ctxVars  == <<eofCounter, eofFrameInfo, eofFrame, flag, mutex>>
cbVars   == <<cbpc, cbFrameInfo, cbContext, invocations, getLatestCalls>>
vars     == <<mainVars, devVars, waitVars, ctxVars, cbVars>>

Init ==
    /\ pc = "L34" /\ failStage = "none"
    /\ sessionOpen = FALSE /\ closeCalls = 0 /\ cbRegistered = FALSE
    /\ sizeKnown = FALSE /\ bufState = "none" /\ deleteCalls = 0
    /\ acqActive = FALSE /\ abortCalls = 0
    /\ framesAcquired = 0 /\ waitCalls = 0 /\ waitRet = "none"
    /\ elapsed = FALSE /\ notified = FALSE
    /\ printed = <<>> /\ timeoutFrame = 0 /\ report = "none"
    /\ errMsg = "none"
    /\ eofCounter = 0 /\ eofFrameInfo = 0 /\ eofFrame = 0
    /\ flag = FALSE /\ mutex = "free"
    /\ cbpc = "idle" /\ cbFrameInfo = 0 /\ cbContext = FALSE
    /\ invocations = 0 /\ getLatestCalls = 0

----------------------------------------------------------------------------
(* main: setup, lines 34-94 *)

\* CloseAllCamerasAndUninit(contexts), then `return 1`.
CloseAndReturn1 ==
    /\ sessionOpen' = FALSE
    /\ closeCalls' = closeCalls + 1
    /\ pc' = "return1"

\* line 34: InitAndOpenOneCamera; on failure lines 36-37.
OpenCamera ==
    /\ pc = "L34"
    /\ \/ /\ sessionOpen' = TRUE
          /\ pc' = "L43"
          /\ UNCHANGED <<failStage, errMsg>>
       \/ /\ failStage' = "open"
          /\ errMsg' = "Failed to open camera."
          /\ pc' = "return1"
          /\ UNCHANGED sessionOpen
    /\ UNCHANGED <<sizeKnown, framesAcquired, waitCalls, waitRet, printed,
                   timeoutFrame, report, closeCalls, cbRegistered, bufState,
                   deleteCalls, acqActive, abortCalls, waitVars, ctxVars, cbVars>>

\* A variant of RegisterCallback whose failure branch returns without the
\* CloseAllCamerasAndUninit of line 47.
RegisterCallback_NoClose ==
    /\ pc = "L43"
    /\ \/ /\ cbRegistered' = TRUE
          /\ pc' = "L60"
          /\ UNCHANGED <<failStage, errMsg>>
       \/ /\ failStage' = "register"
          /\ errMsg' = "pl_cam_register_callback() error"
          /\ pc' = "return1"
          /\ UNCHANGED cbRegistered
    /\ UNCHANGED <<sizeKnown, framesAcquired, waitCalls, waitRet, printed,
                   timeoutFrame, report, sessionOpen, closeCalls, bufState,
                   deleteCalls, acqActive, abortCalls, waitVars, ctxVars, cbVars>>

\* line 43: pl_cam_register_callback_ex3; on failure line 46, then 47.
RegisterCallback ==
    /\ pc = "L43"
    /\ \/ /\ cbRegistered' = TRUE
          /\ pc' = "L60"
          /\ UNCHANGED <<failStage, errMsg>>
       \/ /\ failStage' = "register"
          /\ errMsg' = "pl_cam_register_callback() error"
          /\ pc' = "L47"
          /\ UNCHANGED cbRegistered
    /\ UNCHANGED <<sizeKnown, framesAcquired, waitCalls, waitRet, printed,
                   timeoutFrame, report, sessionOpen, closeCalls, bufState,
                   deleteCalls, acqActive, abortCalls, waitVars, ctxVars, cbVars>>

\* What SelectCameraExpMode (Common, outside the sources at hand) reports when
\* it fails: section 7 of the specification has every setup error reported
\* with its stage.  main itself prints nothing at lines 60-64.
SelectCameraExpModeReport == "SelectCameraExpMode() error"

\* line 60: SelectCameraExpMode; on failure line 62.
SelectExpMode ==
    /\ pc = "L60"
    /\ \/ /\ pc' = "L67"
          /\ UNCHANGED <<failStage, errMsg>>
       \/ /\ failStage' = "expmode"
          /\ errMsg' = SelectCameraExpModeReport
          /\ pc' = "L62"
    /\ UNCHANGED <<sizeKnown, framesAcquired, waitCalls, waitRet, printed,
                   timeoutFrame, report, devVars, waitVars, ctxVars, cbVars>>

\* line 67: pl_exp_setup_cont sets exposureBytes; on failure line 70, then 71.
SetupCont ==
    /\ pc = "L67"
    /\ \/ /\ sizeKnown' = TRUE
          /\ pc' = "L78"
          /\ UNCHANGED <<failStage, errMsg>>
       \/ /\ failStage' = "setup"
          /\ errMsg' = "pl_exp_setup_cont() error"
          /\ pc' = "L71"
          /\ UNCHANGED sizeKnown
    /\ UNCHANGED <<framesAcquired, waitCalls, waitRet, printed,
                   timeoutFrame, report, devVars, waitVars, ctxVars, cbVars>>

\* A variant of AllocBuffer that does not return on a failed allocation.
AllocBuffer_Unchecked ==
    /\ pc = "L78"
    /\ \/ /\ bufState' = "allocated"
          /\ UNCHANGED <<failStage, errMsg>>
       \/ /\ failStage' = "alloc"
          /\ errMsg' = "Allocation failed."
          /\ UNCHANGED bufState
    /\ pc' = "L88"
    /\ UNCHANGED <<sizeKnown, framesAcquired, waitCalls, waitRet, printed,
                   timeoutFrame, report, sessionOpen, closeCalls, cbRegistered,
                   deleteCalls, acqActive, abortCalls, waitVars, ctxVars, cbVars>>

\* lines 77-79: new (std::nothrow) uns8[circBufferBytes]; on failure line 81,
\* then 82.
AllocBuffer ==
    /\ pc = "L78"
    /\ \/ /\ bufState' = "allocated"
          /\ pc' = "L88"
          /\ UNCHANGED <<failStage, errMsg>>
       \/ /\ failStage' = "alloc"
          /\ errMsg' = "Allocation failed."
          /\ pc' = "L82"
          /\ UNCHANGED bufState
    /\ UNCHANGED <<sizeKnown, framesAcquired, waitCalls, waitRet, printed,
                   timeoutFrame, report, sessionOpen, closeCalls, cbRegistered,
                   deleteCalls, acqActive, abortCalls, waitVars, ctxVars, cbVars>>

\* A variant of StartCont whose failure branch lacks the delete [] of line 91.
StartCont_LeakOnFail ==
    /\ pc = "L88"
    /\ \/ /\ acqActive' = TRUE
          /\ framesAcquired' = 0
          /\ pc' = "L100"
          /\ UNCHANGED <<failStage, errMsg>>
       \/ /\ failStage' = "start"
          /\ errMsg' = "pl_exp_start_cont() error"
          /\ pc' = "L92"
          /\ UNCHANGED <<acqActive, framesAcquired>>
    /\ UNCHANGED <<sizeKnown, waitCalls, waitRet, printed,
                   timeoutFrame, report, sessionOpen, closeCalls, cbRegistered,
                   bufState, deleteCalls, abortCalls, waitVars, ctxVars, cbVars>>

\* line 88: pl_exp_start_cont; on failure line 90, then 91.
\* On success lines 96-98 initialise the loop's locals.
StartCont ==
    /\ pc = "L88"
    /\ \/ /\ acqActive' = TRUE
          /\ framesAcquired' = 0
          /\ pc' = "L100"
          /\ UNCHANGED <<failStage, errMsg>>
       \/ /\ failStage' = "start"
          /\ errMsg' = "pl_exp_start_cont() error"
          /\ pc' = "L91"
          /\ UNCHANGED <<acqActive, framesAcquired>>
    /\ UNCHANGED <<sizeKnown, waitCalls, waitRet, printed,
                   timeoutFrame, report, sessionOpen, closeCalls, cbRegistered,
                   bufState, deleteCalls, abortCalls, waitVars, ctxVars, cbVars>>

\* line 91: delete [] circBufferInMemory after a failed start.
StartFailDelete ==
    /\ pc = "L91"
    /\ bufState' = "freed"
    /\ deleteCalls' = deleteCalls + 1
    /\ pc' = "L92"
    /\ UNCHANGED <<failStage, sizeKnown, framesAcquired, waitCalls, waitRet,
                   printed, timeoutFrame, report, errMsg, sessionOpen, closeCalls,
                   cbRegistered, acqActive, abortCalls, waitVars, ctxVars, cbVars>>

\* lines 47-48, 62-63, 71-72, 82-83, 92-93: close and return 1.
FailClose ==
    /\ pc \in {"L47", "L62", "L71", "L82", "L92"}
    /\ CloseAndReturn1
    /\ UNCHANGED <<failStage, sizeKnown, framesAcquired, waitCalls, waitRet,
                   printed, timeoutFrame, report, errMsg, cbRegistered, bufState,
                   deleteCalls, acqActive, abortCalls, waitVars, ctxVars, cbVars>>

----------------------------------------------------------------------------
(* main: the control loop, lines 100-118 *)

\* A variant of LoopTest with the test framesAcquired <= 200.
LoopTest_OffByOne ==
    /\ pc = "L100"
    /\ pc' = IF framesAcquired <= Target THEN "L103" ELSE "L120"
    /\ UNCHANGED <<failStage, sizeKnown, framesAcquired, waitCalls, waitRet,
                   printed, timeoutFrame, report, errMsg, devVars, waitVars, ctxVars,
                   cbVars>>

\* line 100: while (framesAcquired < 200)
LoopTest ==
    /\ pc = "L100"
    /\ pc' = IF framesAcquired < Target THEN "L103" ELSE "L120"
    /\ UNCHANGED <<failStage, sizeKnown, framesAcquired, waitCalls, waitRet,
                   printed, timeoutFrame, report, errMsg, devVars, waitVars, ctxVars,
                   cbVars>>

\* line 103: the call WaitForEofEvent(ctx, 2000, errorOccurred); the deadline
\* of this wait starts to run.
WaitCall ==
    /\ pc = "L103"
    /\ waitCalls' = waitCalls + 1
    /\ elapsed' = FALSE
    /\ notified' = FALSE
    /\ pc' = "w_lock"
    /\ UNCHANGED <<failStage, sizeKnown, framesAcquired, waitRet, printed,
                   timeoutFrame, report, errMsg, devVars, ctxVars, cbVars>>

\* wait_or_timeout: the waiter takes the event mutex (on entry, and again
\* after each wakeup).
WaitLock ==
    /\ pc = "w_lock"
    /\ mutex = "free"
    /\ mutex' = "main"
    /\ pc' = "w_check"
    /\ UNCHANGED <<failStage, sizeKnown, framesAcquired, waitCalls, waitRet,
                   printed, timeoutFrame, report, errMsg, devVars, waitVars,
                   eofCounter, eofFrameInfo, eofFrame, flag, cbVars>>

\* A variant of WaitCheck that looks at the deadline before the flag: a
\* wakeup by the deadline returns timed-out without re-checking the flag.
WaitCheck_DeadlineFirst ==
    /\ pc = "w_check"
    /\ IF elapsed
       THEN /\ waitRet' = "timedout"
            /\ pc' = "L105"
            /\ UNCHANGED flag
       ELSE IF flag
       THEN /\ flag' = FALSE
            /\ waitRet' = "fired"
            /\ pc' = "L110"
       ELSE /\ pc' = "w_blocked"
            /\ UNCHANGED <<flag, waitRet>>
    /\ mutex' = "free"
    /\ UNCHANGED <<failStage, sizeKnown, framesAcquired, waitCalls,
                   printed, timeoutFrame, report, errMsg, devVars, waitVars,
                   eofCounter, eofFrameInfo, eofFrame, cbVars>>

\* A variant of WaitCheck that returns fired without clearing the flag.
WaitCheck_NoClear ==
    /\ pc = "w_check"
    /\ IF flag
       THEN /\ waitRet' = "fired"
            /\ pc' = "L110"
       ELSE IF elapsed
       THEN /\ waitRet' = "timedout"
            /\ pc' = "L105"
       ELSE /\ pc' = "w_blocked"
            /\ UNCHANGED waitRet
    /\ mutex' = "free"
    /\ UNCHANGED <<failStage, sizeKnown, framesAcquired, waitCalls,
                   printed, timeoutFrame, report, errMsg, devVars, waitVars,
                   eofCounter, eofFrameInfo, eofFrame, flag, cbVars>>

\* wait_or_timeout, holding the mutex: a set flag is cleared and the wait
\* returns fired; with the flag clear it returns timed-out once the deadline
\* has passed, and otherwise blocks on the condition (releasing the mutex).
WaitCheck ==
    /\ pc = "w_check"
    /\ IF flag
       THEN /\ flag' = FALSE
            /\ waitRet' = "fired"
            /\ pc' = "L110"
       ELSE IF elapsed
       THEN /\ waitRet' = "timedout"
            /\ pc' = "L105"
            /\ UNCHANGED flag
       ELSE /\ pc' = "w_blocked"
            /\ UNCHANGED <<flag, waitRet>>
    /\ mutex' = "free"
    /\ UNCHANGED <<failStage, sizeKnown, framesAcquired, waitCalls,
                   printed, timeoutFrame, report, errMsg, devVars, waitVars,
                   eofCounter, eofFrameInfo, eofFrame, cbVars>>

\* wait_or_timeout: the blocked waiter is woken by a notification or by the
\* deadline, and goes back to take the mutex and re-check the flag.
WaitWake ==
    /\ pc = "w_blocked"
    /\ notified \/ elapsed
    /\ notified' = FALSE
    /\ pc' = "w_lock"
    /\ UNCHANGED <<failStage, sizeKnown, framesAcquired, waitCalls, waitRet,
                   printed, timeoutFrame, report, errMsg, devVars, elapsed, ctxVars,
                   cbVars>>

\* wait_or_timeout: a spurious wakeup of the blocked waiter.
WaitSpurious ==
    /\ pc = "w_blocked"
    /\ ~notified /\ ~elapsed
    /\ pc' = "w_lock"
    /\ UNCHANGED <<failStage, sizeKnown, framesAcquired, waitCalls, waitRet,
                   printed, timeoutFrame, report, errMsg, devVars, waitVars, ctxVars,
                   cbVars>>

\* The 2000 ms deadline of the wait in progress passes.
DeadlinePasses ==
    /\ pc \in {"w_lock", "w_check", "w_blocked"}
    /\ ~elapsed
    /\ elapsed' = TRUE
    /\ UNCHANGED <<mainVars, devVars, notified, ctxVars, cbVars>>

\* A variant of TimeoutBreak without the break: the loop tries again.
TimeoutBreak_Retry ==
    /\ pc = "L105"
    /\ timeoutFrame' = framesAcquired + 1
    /\ pc' = "L100"
    /\ UNCHANGED <<failStage, sizeKnown, framesAcquired, waitCalls, waitRet,
                   printed, report, errMsg, devVars, waitVars, ctxVars, cbVars>>

\* A variant of TimeoutBreak whose message names framesAcquired, not the
\* frame waited for.
TimeoutBreak_NamesCount ==
    /\ pc = "L105"
    /\ timeoutFrame' = framesAcquired
    /\ pc' = "L120"
    /\ UNCHANGED <<failStage, sizeKnown, framesAcquired, waitCalls, waitRet,
                   printed, report, errMsg, devVars, waitVars, ctxVars, cbVars>>

\* lines 104-108: the wait returned false: the TIMEOUT messages and break.
TimeoutBreak ==
    /\ pc = "L105"
    /\ timeoutFrame' = framesAcquired + 1
    /\ pc' = "L120"
    /\ UNCHANGED <<failStage, sizeKnown, framesAcquired, waitCalls, waitRet,
                   printed, report, errMsg, devVars, waitVars, ctxVars, cbVars>>

\* A variant of PrintFrame in which the loop body locks the event mutex to
\* read the descriptor and keeps it.
PrintFrame_HoldsMutex ==
    /\ pc = "L110"
    /\ mutex = "free"
    /\ mutex' = "main"
    /\ printed' = Append(printed, eofFrameInfo)
    /\ pc' = "L117"
    /\ UNCHANGED <<failStage, sizeKnown, framesAcquired, waitCalls, waitRet,
                   timeoutFrame, report, errMsg, devVars, waitVars,
                   eofCounter, eofFrameInfo, eofFrame, flag, cbVars>>

\* lines 110-115: the timing, and the message that reads
\* ctx->eofFrameInfo.FrameNr (without the event mutex).
PrintFrame ==
    /\ pc = "L110"
    /\ printed' = Append(printed, eofFrameInfo)
    /\ pc' = "L117"
    /\ UNCHANGED <<failStage, sizeKnown, framesAcquired, waitCalls, waitRet,
                   timeoutFrame, report, errMsg, devVars, waitVars, ctxVars, cbVars>>

\* A variant of IncFrames that counts a fired return twice.
IncFrames_Twice ==
    /\ pc = "L117"
    /\ framesAcquired' = framesAcquired + 2
    /\ pc' = "L100"
    /\ UNCHANGED <<failStage, sizeKnown, waitCalls, waitRet, printed,
                   timeoutFrame, report, errMsg, devVars, waitVars, ctxVars, cbVars>>

\* line 117: framesAcquired++, and back to the loop test.
IncFrames ==
    /\ pc = "L117"
    /\ framesAcquired' = framesAcquired + 1
    /\ pc' = "L100"
    /\ UNCHANGED <<failStage, sizeKnown, waitCalls, waitRet, printed,
                   timeoutFrame, report, errMsg, devVars, waitVars, ctxVars, cbVars>>

----------------------------------------------------------------------------
(* main: teardown and report, lines 120-130 *)

\* line 120: pl_exp_abort(ctx->hcam, CCS_HALT)
Abort ==
    /\ pc = "L120"
    /\ acqActive' = FALSE
    /\ abortCalls' = abortCalls + 1
    /\ pc' = "L121"
    /\ UNCHANGED <<failStage, sizeKnown, framesAcquired, waitCalls, waitRet,
                   printed, timeoutFrame, report, errMsg, sessionOpen, closeCalls,
                   cbRegistered, bufState, deleteCalls, waitVars, ctxVars,
                   cbVars>>

\* line 121: delete [] circBufferInMemory
DeleteBuffer ==
    /\ pc = "L121"
    /\ bufState' = "freed"
    /\ deleteCalls' = deleteCalls + 1
    /\ pc' = "L122"
    /\ UNCHANGED <<failStage, sizeKnown, framesAcquired, waitCalls, waitRet,
                   printed, timeoutFrame, report, errMsg, sessionOpen, closeCalls,
                   cbRegistered, acqActive, abortCalls, waitVars, ctxVars,
                   cbVars>>

\* line 122: CloseAllCamerasAndUninit(contexts)
CloseFinal ==
    /\ pc = "L122"
    /\ sessionOpen' = FALSE
    /\ closeCalls' = closeCalls + 1
    /\ pc' = "L124"
    /\ UNCHANGED <<failStage, sizeKnown, framesAcquired, waitCalls, waitRet,
                   printed, timeoutFrame, report, errMsg, cbRegistered, bufState,
                   deleteCalls, acqActive, abortCalls, waitVars, ctxVars,
                   cbVars>>

\* A variant of Report that calls any run with a frame a success.
Report_AnyFrame ==
    /\ pc = "L124"
    /\ report' = IF framesAcquired > 0 THEN "SUCCESS" ELSE "FAILURE"
    /\ pc' = "return0"
    /\ UNCHANGED <<failStage, sizeKnown, framesAcquired, waitCalls, waitRet,
                   printed, timeoutFrame, errMsg, devVars, waitVars, ctxVars,
                   cbVars>>

\* lines 124-130: SUCCESS or FAILURE, and return 0.
Report ==
    /\ pc = "L124"
    /\ report' = IF framesAcquired = Target THEN "SUCCESS" ELSE "FAILURE"
    /\ pc' = "return0"
    /\ UNCHANGED <<failStage, sizeKnown, framesAcquired, waitCalls, waitRet,
                   printed, timeoutFrame, errMsg, devVars, waitVars, ctxVars,
                   cbVars>>

----------------------------------------------------------------------------
(* The driver thread: StallTestEofHandler, lines 7-28.  The driver runs    *)
(* one invocation at a time, while the acquisition is active.              *)

\* The arguments of one invocation: the frame information of the driver's
\* next frame or null, and the registered context or null.
FrameInfoArgs == {0, invocations + 1}

\* The driver invokes the registered handler at the end of a frame.
CbInvoke ==
    /\ cbpc = "idle"
    /\ cbRegistered /\ acqActive
    /\ invocations < MaxCallbacks
    /\ invocations' = invocations + 1
    /\ \E fi \in FrameInfoArgs, cx \in BOOLEAN :
          /\ cbFrameInfo' = fi
          /\ cbContext' = cx
    /\ cbpc' = "L9"
    /\ UNCHANGED <<mainVars, devVars, waitVars, ctxVars, getLatestCalls>>

\* A variant of CbNullCheck that tests pFrameInfo only.
CbNullCheck_FrameInfoOnly ==
    /\ cbpc = "L9"
    /\ cbpc' = IF cbFrameInfo = 0 THEN "idle" ELSE "L13"
    /\ UNCHANGED <<mainVars, devVars, waitVars, ctxVars, cbFrameInfo,
                   cbContext, invocations, getLatestCalls>>

\* lines 9-11: if (!pFrameInfo || !pContext) return;
CbNullCheck ==
    /\ cbpc = "L9"
    /\ cbpc' = IF cbFrameInfo = 0 \/ ~cbContext THEN "idle" ELSE "L13"
    /\ UNCHANGED <<mainVars, devVars, waitVars, ctxVars, cbFrameInfo,
                   cbContext, invocations, getLatestCalls>>

\* line 13: ctx->eofCounter++
CbCount ==
    /\ cbpc = "L13"
    /\ eofCounter' = eofCounter + 1
    /\ cbpc' = "L14"
    /\ UNCHANGED <<mainVars, devVars, waitVars, eofFrameInfo, eofFrame, flag,
                   mutex, cbFrameInfo, cbContext, invocations, getLatestCalls>>

\* A variant of CbCopyInfo that keeps the descriptor of a signal not yet
\* consumed.
CbCopyInfo_KeepPending ==
    /\ cbpc = "L14"
    /\ eofFrameInfo' = IF flag THEN eofFrameInfo ELSE cbFrameInfo
    /\ cbpc' = "L17"
    /\ UNCHANGED <<mainVars, devVars, waitVars, eofCounter, eofFrame, flag,
                   mutex, cbFrameInfo, cbContext, invocations, getLatestCalls>>

\* line 14: ctx->eofFrameInfo = *pFrameInfo (without the event mutex)
CbCopyInfo ==
    /\ cbpc = "L14"
    /\ eofFrameInfo' = cbFrameInfo
    /\ cbpc' = "L17"
    /\ UNCHANGED <<mainVars, devVars, waitVars, eofCounter, eofFrame, flag,
                   mutex, cbFrameInfo, cbContext, invocations, getLatestCalls>>

\* A variant of CbGetLatest that returns from the handler when the fetch
\* fails, without signalling.
CbGetLatest_ReturnOnFail ==
    /\ cbpc = "L17"
    /\ getLatestCalls' = getLatestCalls + 1
    /\ \/ /\ eofFrame' = cbFrameInfo
          /\ cbpc' = "L24"
       \/ /\ UNCHANGED eofFrame
          /\ cbpc' = "idle"
    /\ UNCHANGED <<mainVars, devVars, waitVars, eofCounter, eofFrameInfo, flag,
                   mutex, cbFrameInfo, cbContext, invocations>>

\* lines 17-20: pl_exp_get_latest_frame(ctx->hcam, &ctx->eofFrame); a failure
\* is ignored and leaves ctx->eofFrame as it was.
CbGetLatest ==
    /\ cbpc = "L17"
    /\ getLatestCalls' = getLatestCalls + 1
    /\ \/ eofFrame' = cbFrameInfo
       \/ UNCHANGED eofFrame
    /\ cbpc' = "L24"
    /\ UNCHANGED <<mainVars, devVars, waitVars, eofCounter, eofFrameInfo, flag,
                   mutex, cbFrameInfo, cbContext, invocations>>

\* line 24: std::lock_guard<std::mutex> lock(ctx->eofEvent.mutex)
CbLock ==
    /\ cbpc = "L24"
    /\ mutex = "free"
    /\ mutex' = "cb"
    /\ cbpc' = "L25"
    /\ UNCHANGED <<mainVars, devVars, waitVars, eofCounter, eofFrameInfo,
                   eofFrame, flag, cbFrameInfo, cbContext, invocations,
                   getLatestCalls>>

\* line 25: ctx->eofEvent.flag = true
CbSetFlag ==
    /\ cbpc = "L25"
    /\ flag' = TRUE
    /\ cbpc' = "L26"
    /\ UNCHANGED <<mainVars, devVars, waitVars, eofCounter, eofFrameInfo,
                   eofFrame, mutex, cbFrameInfo, cbContext, invocations,
                   getLatestCalls>>

\* A variant of CbUnlock in which the handler leaves the event mutex locked.
CbUnlock_Forgotten ==
    /\ cbpc = "L26"
    /\ cbpc' = "L27"
    /\ UNCHANGED <<mainVars, devVars, waitVars, eofCounter, eofFrameInfo,
                   eofFrame, flag, mutex, cbFrameInfo, cbContext, invocations,
                   getLatestCalls>>

\* line 26: the lock_guard's scope ends
CbUnlock ==
    /\ cbpc = "L26"
    /\ mutex' = "free"
    /\ cbpc' = "L27"
    /\ UNCHANGED <<mainVars, devVars, waitVars, eofCounter, eofFrameInfo,
                   eofFrame, flag, cbFrameInfo, cbContext, invocations,
                   getLatestCalls>>

\* line 27: ctx->eofEvent.cond.notify_all(), and the handler returns
CbNotify ==
    /\ cbpc = "L27"
    /\ notified' = (notified \/ pc = "w_blocked")
    /\ cbpc' = "idle"
    /\ UNCHANGED <<mainVars, devVars, elapsed, ctxVars, cbFrameInfo,
                   cbContext, invocations, getLatestCalls>>

Next == OpenCamera \/ RegisterCallback \/ SelectExpMode \/ SetupCont
        \/ AllocBuffer \/ StartCont \/ StartFailDelete \/ FailClose
        \/ LoopTest \/ WaitCall \/ WaitLock \/ WaitCheck \/ WaitWake
        \/ WaitSpurious \/ DeadlinePasses \/ TimeoutBreak \/ PrintFrame
        \/ IncFrames \/ Abort \/ DeleteBuffer \/ CloseFinal \/ Report
        \/ CbInvoke \/ CbNullCheck \/ CbCount \/ CbCopyInfo \/ CbGetLatest
        \/ CbLock \/ CbSetFlag \/ CbUnlock \/ CbNotify

Spec == Init /\ [][Next]_vars

(* Fairness.  Both threads are pre-emptible OS threads that keep running:  *)
(* main takes its next step when it can (a spurious wakeup is never        *)
(* owed), a handler invocation once begun runs on to its return, and the   *)
(* deadline of a wait in progress passes.  Whether and when the driver     *)
(* invokes the handler is left open.                                       *)
MainStep ==
    \/ OpenCamera \/ RegisterCallback \/ SelectExpMode \/ SetupCont
    \/ AllocBuffer \/ StartCont \/ StartFailDelete \/ FailClose
    \/ LoopTest \/ WaitCall \/ WaitLock \/ WaitCheck \/ WaitWake
    \/ TimeoutBreak \/ PrintFrame \/ IncFrames
    \/ Abort \/ DeleteBuffer \/ CloseFinal \/ Report

HandlerStep ==
    \/ CbNullCheck \/ CbCount \/ CbCopyInfo \/ CbGetLatest
    \/ CbLock \/ CbSetFlag \/ CbUnlock \/ CbNotify

FairSpec ==
    /\ Spec
    /\ WF_vars(MainStep)
    /\ WF_vars(HandlerStep)
    /\ WF_vars(DeadlinePasses)

----------------------------------------------------------------------------
(* The vocabulary of the claims, read off main's position and locals. *)

\* main is inside WaitForEofEvent.
InWait == {"w_lock", "w_check", "w_blocked"}

\* main has left the loop of lines 100-118 on the path that ends in return 0.
PostLoop == {"L120", "L121", "L122", "L124", "return0"}

\* main has returned.
Returned == {"return0", "return1"}

\* The fired returns of WaitForEofEvent so far: each is counted by line 117,
\* the latest possibly not yet.
FiredReturns == framesAcquired + (IF pc \in {"L110", "L117"} THEN 1 ELSE 0)

\* The run's terminal state: a failed setup step; the loop left at the
\* target (the test of line 124); the loop left by the break of line 107.
TerminalState ==
    IF failStage # "none" THEN "SetupFailed"
    ELSE IF pc \in PostLoop
         THEN (IF framesAcquired = Target THEN "Completed" ELSE "Stalled")
         ELSE "Running"

----------------------------------------------------------------------------
(* C1: a wait that returns timed-out ends the loop: no further wait is     *)
(* issued, frames-acquired keeps the value it had before that wait (every  *)
(* earlier wait fired and was counted, so it is the number of waits less   *)
(* one), and the terminal state is Stalled.                                *)
C1_TimeoutStalls ==
    /\ [](waitRet = "timedout" =>
            /\ pc \in {"L105"} \cup PostLoop
            /\ framesAcquired + 1 = waitCalls
            /\ framesAcquired < Target
            /\ (pc \in PostLoop => TerminalState = "Stalled"))
    /\ [][waitRet' = "timedout" =>
            /\ framesAcquired' = framesAcquired
            /\ (waitRet = "timedout" => waitCalls' = waitCalls)]_vars

C1_Witness ==
    /\ pc = "return0" /\ waitRet = "timedout"
    /\ framesAcquired = 2 /\ waitCalls = 3 /\ eofCounter = 2

(* C2: frames-acquired grows by exactly 1, at line 117 after a fired       *)
(* return, and on no other step; every wait is accounted for (counted,     *)
(* still in progress or being counted, or timed out); 0 <= frames-acquired *)
(* <= target, no wait is issued at the target, and the loop is left        *)
(* without a timeout exactly at the target.                                *)
C2_CountsByOne ==
    /\ [](/\ framesAcquired \in 0..Target
          /\ waitCalls = framesAcquired
                         + (IF pc \in InWait \cup {"L110", "L117"} THEN 1 ELSE 0)
                         + (IF waitRet = "timedout" THEN 1 ELSE 0)
          /\ (pc \in InWait \cup {"L103"} => framesAcquired < Target)
          /\ (pc \in PostLoop =>
                (waitRet # "timedout" <=> framesAcquired = Target))
          /\ (TerminalState = "Completed" <=>
                (pc \in PostLoop /\ framesAcquired = Target)))
    /\ [][framesAcquired' # framesAcquired =>
            /\ framesAcquired' = framesAcquired + 1
            /\ pc = "L117" /\ waitRet = "fired"]_vars

C2_Witness ==
    /\ pc = "return0" /\ framesAcquired = Target /\ waitCalls = Target
    /\ report = "SUCCESS" /\ TerminalState = "Completed"

(* C3: a fired return happens holding the event mutex, with the flag set,  *)
(* and clears the flag in the same step; the fired returns never exceed    *)
(* the handler's signal calls (eofCounter).                                *)
C3_NoDoubleDelivery ==
    /\ [](FiredReturns <= eofCounter)
    /\ [][(waitRet' = "fired" /\ pc = "w_check" /\ pc' = "L110") =>
            (flag /\ ~flag' /\ mutex = "main")]_vars

C3_Witness ==
    /\ pc = "L110" /\ FiredReturns = 2 /\ eofCounter = 2
    /\ ~flag /\ cbpc = "idle"

(* C4, as stated: once the handler is idle and the flag is clear, every    *)
(* signal call has been matched by a fired return of its own.              *)
C4_OnePerSignal ==
    (cbpc = "idle" /\ ~flag) => FiredReturns = eofCounter

(* C4, amended: at most one consumed read per signal call.  Every fired    *)
(* return, and the signal still pending in the flag, is owed to a signal   *)
(* call of its own; signals made back-to-back share one fired return.      *)
C4_AtMostOnePerSignal ==
    FiredReturns + (IF flag THEN 1 ELSE 0) <= eofCounter

C4_Witness ==
    /\ cbpc = "idle" /\ ~flag /\ pc = "w_blocked"
    /\ eofCounter = 3 /\ framesAcquired = 1

(* C5: signals are not queued.  With the handler idle after two or more  *)
(* signals that no wait has consumed, the latest of them made by the       *)
(* handler's most recent invocation, the wait's next step returns fired,   *)
(* leaves the flag clear and the descriptor that of the most recent        *)
(* signal, and has not counted a frame yet: the one fired return is all    *)
(* line 117 will count for those signals.                                  *)
TwoSignalsPending ==
    /\ cbpc = "idle" /\ flag
    /\ cbFrameInfo # 0 /\ cbContext
    /\ eofCounter >= FiredReturns + 2

C5_NotQueued ==
    /\ [](TwoSignalsPending => eofFrameInfo = cbFrameInfo)
    /\ [][(TwoSignalsPending /\ pc = "w_check" /\ pc' # pc) =>
            /\ pc' = "L110" /\ waitRet' = "fired"
            /\ ~flag'
            /\ eofFrameInfo' = cbFrameInfo
            /\ framesAcquired' = framesAcquired
            /\ FiredReturns' = FiredReturns + 1]_vars

C5_Witness ==
    /\ pc = "L105" /\ cbpc = "idle" /\ ~flag
    /\ invocations = 2 /\ eofCounter = 2
    /\ framesAcquired = 1 /\ printed = <<2>>

C7_TeardownOnce ==
    (pc \in Returned /\ failStage \in {"none", "expmode", "setup", "alloc", "start"}) =>
        /\ abortCalls = 1
        /\ deleteCalls = (IF bufState = "none" THEN 0 ELSE 1)

C9_SetupFailedSkipsLoop ==
    (failStage # "none") =>
        /\ TerminalState = "SetupFailed"
        /\ pc \in {"L47", "L62", "L71", "L82", "L91", "L92", "return1"}
        /\ ~acqActive /\ abortCalls = 0
        /\ waitCalls = 0 /\ waitRet = "none"
        /\ framesAcquired = 0
        /\ invocations = 0 /\ eofCounter = 0

C9_Witness ==
    /\ failStage = "start" /\ pc = "return1" /\ bufState = "freed"

(* C10: the handler's body runs only with both arguments non-null; the     *)
(* handler's step on a null frame-info or a null context returns at once   *)
(* and changes neither the flag, the descriptor, the counter, the fetched  *)
(* frame or the mutex, nor fetches a frame or notifies the waiter.         *)
C10_NullCallbackNoOp ==
    /\ [](cbpc \notin {"idle", "L9"} => (cbFrameInfo # 0 /\ cbContext))
    /\ [][(cbpc = "L9" /\ cbpc' # cbpc /\ (cbFrameInfo = 0 \/ ~cbContext)) =>
            /\ cbpc' = "idle"
            /\ UNCHANGED <<ctxVars, getLatestCalls, waitVars, mainVars, devVars>>]_vars

C10_Witness ==
    /\ cbpc = "idle" /\ invocations = 2 /\ cbFrameInfo = 0 /\ cbContext
    /\ eofCounter = 0 /\ getLatestCalls = 0 /\ ~flag /\ pc = "w_blocked"

(* C11: a failed fetch changes nothing of what follows in the handler.   *)
(* Whatever pl_exp_get_latest_frame returns, the handler goes on to line   *)
(* 24 with the descriptor already recorded and sets the flag; the step     *)
(* touches neither the flag, the descriptor, the counter nor main's        *)
(* outcome; a run is Stalled only after a timed-out wait; and signals      *)
(* whose fetches all failed are consumed and counted like any others.      *)
FetchFailed ==
    /\ cbpc \in {"L24", "L25", "L26", "L27"}
    /\ eofFrame # cbFrameInfo

C11_FailedFetchStillSignals ==
    /\ [](/\ (FetchFailed => (eofFrameInfo = cbFrameInfo /\ eofCounter >= 1))
          /\ (TerminalState = "Stalled" => waitRet = "timedout")
          /\ ((eofFrame = 0 /\ cbpc = "idle" /\ ~flag /\ eofCounter >= 1) =>
                FiredReturns >= 1))
    /\ [][(cbpc = "L17" /\ cbpc' # cbpc) =>
            /\ cbpc' = "L24"
            /\ UNCHANGED <<flag, eofFrameInfo, eofCounter, mainVars, devVars>>]_vars
    /\ [][(FetchFailed /\ cbpc = "L25" /\ cbpc' # cbpc) => flag']_vars

C11_Witness ==
    /\ pc = "return0" /\ report = "SUCCESS" /\ framesAcquired = Target
    /\ getLatestCalls = Target /\ eofFrame = 0

(* C12, as stated: a failed fetch is observable through the descriptor   *)
(* delivered with the signal.  The two runs of the claim differ in the     *)
(* outcome of one step of line 17, and the later steps of the handler do   *)
(* not depend on that outcome, so the runs' descriptors can differ only if *)
(* the failing step itself marks the descriptor.                           *)
C12_FailureInDescriptor ==
    [][(cbpc = "L17" /\ cbpc' = "L24" /\ eofFrame' = eofFrame) =>
            eofFrameInfo' # eofFrameInfo]_vars

(* C13: the session, once opened, is open until the one call of         *)
(* CloseAllCamerasAndUninit, and every return after a successful open has  *)
(* made that call; the call comes after the loop (main is past line 122 or *)
(* on a failure branch), with the acquisition not active, and after        *)
(* pl_exp_abort when the acquisition had been started.                     *)
C13_SessionClosedOnce ==
    /\ [](/\ closeCalls \in {0, 1}
          /\ (sessionOpen <=> (pc # "L34" /\ failStage # "open" /\ closeCalls = 0))
          /\ ((pc \in Returned /\ failStage # "open") =>
                (closeCalls = 1 /\ ~sessionOpen))
          /\ (failStage = "open" => closeCalls = 0)
          /\ (closeCalls = 1 =>
                /\ pc \in {"L124", "return0", "return1"}
                /\ ~acqActive
                /\ (failStage = "none" => abortCalls = 1)))
    /\ [][closeCalls' # closeCalls =>
            /\ sessionOpen /\ ~sessionOpen'
            /\ pc \notin InWait
            /\ ~acqActive]_vars

C13_Witness ==
    /\ pc = "return0" /\ closeCalls = 1 /\ ~sessionOpen
    /\ abortCalls = 1 /\ waitRet = "timedout"

(* C14: what a finished run has reported is determined by its terminal   *)
(* state.  Completed: SUCCESS, with frames-acquired at the target the      *)
(* message names.  Stalled: FAILURE, after a TIMEOUT message naming frame  *)
(* frames-acquired + 1.  SetupFailed: no SUCCESS or FAILURE line, and an   *)
(* error message that is the failed step's own.  SUCCESS is reported in    *)
(* no other state.                                                         *)
StageMessage ==
    [open     |-> "Failed to open camera.",
     register |-> "pl_cam_register_callback() error",
     expmode  |-> SelectCameraExpModeReport,
     setup    |-> "pl_exp_setup_cont() error",
     alloc    |-> "Allocation failed.",
     start    |-> "pl_exp_start_cont() error"]

C15_AccessUnderMutex ==
    /\ (cbpc = "L25" => mutex = "cb")
    /\ (pc = "w_check" => mutex = "main")
    /\ (cbpc = "L14" => mutex = "cb")
    /\ (pc = "L110" => mutex = "main")
    /\ ~(cbpc = "L14" /\ pc = "L110")

(* C16, as stated: the frame number main reports after a fired return is *)
(* that of the signal it consumed.  When main reads the descriptor (line   *)
(* 114) no later signal is pending in the flag and no handler invocation   *)
(* has written the descriptor without having signalled yet; and no frame   *)
(* number is reported in two iterations.                                   *)
C16_ReportsConsumedSignal ==
    /\ [](\A i, j \in 1..Len(printed) : i # j => printed[i] # printed[j])
    /\ [][(pc = "L110" /\ pc' = "L117") =>
            (~flag /\ cbpc \notin {"L17", "L24", "L25", "L26"})]_vars

(* C17: no wakeup is lost.  A wait returns timed-out only on a check,    *)
(* under the mutex, that finds the flag clear after the deadline; a flag   *)
(* set while main is in the wait stays set until that wait returns fired,  *)
(* which it does; so a run that ends short of the target has had its       *)
(* deadline pass on a clear flag.                                          *)
C17_NoLostWakeup ==
    /\ [][(pc = "w_check" /\ pc' = "L105") =>
            (~flag /\ elapsed /\ mutex = "main")]_vars
    /\ [][(pc \in InWait /\ flag) =>
            \/ (pc' \in InWait /\ flag')
            \/ (pc' = "L110" /\ waitRet' = "fired")]_vars
    /\ []((pc \in PostLoop /\ framesAcquired < Target) =>
            (waitRet = "timedout" /\ elapsed))
    /\ ((pc \in InWait /\ flag) ~> (pc = "L110"))

C17_Witness ==
    /\ pc = "L110" /\ waitRet = "fired" /\ elapsed /\ ~flag
    /\ framesAcquired = Target - 1

(* C18: the control loop always terminates.  Whatever the driver thread   *)
(* does, a run that has entered the loop leaves it, with the target met or *)
(* on a timed-out wait, and then runs the teardown to its return; the      *)
(* acquisition is aborted only at line 120, after the loop, and never      *)
(* while main is inside a wait.                                            *)
C18_LoopTerminates ==
    /\ ((pc = "L100") ~>
          (pc = "L120" /\ (framesAcquired = Target \/ waitRet = "timedout")))
    /\ ((pc = "L120") ~> (pc = "return0" /\ ~acqActive /\ abortCalls = 1))
    /\ <>(pc \in Returned)
    /\ [][abortCalls' # abortCalls => (pc = "L120" /\ pc' = "L121")]_vars
    /\ [](pc \in InWait \cup {"L100", "L103"} => (acqActive /\ abortCalls = 0))

\* A run in which the driver fires and then stops: some frames counted, a
\* timed-out wait, the teardown done.
C18_Witness ==
    /\ pc = "return0"
    /\ framesAcquired \in 1..(Target - 1)
    /\ waitRet = "timedout"
    /\ abortCalls = 1
    /\ ~acqActive

(* C19: the handler never blocks indefinitely.  Main holds the event mutex *)
(* only between taking it inside the wait and the wait's check, never      *)
(* while blocked and never in the rest of the loop body; so an invocation  *)
(* with both arguments non-null gets the mutex, sets the flag, notifies    *)
(* and returns.                                                            *)
C19_HandlerReturns ==
    /\ [](mutex = "main" => pc = "w_check")
    /\ ((cbpc = "L24") ~> (cbpc = "L25" /\ mutex = "cb"))
    /\ ((cbpc = "L13") ~> (cbpc = "L27" /\ mutex # "cb"))
    /\ ((cbpc # "idle") ~> (cbpc = "idle"))
    /\ [][(cbpc = "L25" /\ cbpc' = "L26") => flag']_vars
    /\ [][(cbpc = "L27" /\ cbpc' = "idle" /\ pc = "w_blocked") => notified']_vars

\* The handler holds the mutex while main waits for it inside the wait.
C19_Witness ==
    /\ cbpc = "L26" /\ mutex = "cb" /\ flag
    /\ pc = "w_lock"

====
